---- MODULE Spec2Model ----
(***************************************************************************)
(* Model of mvp_scheduler.py: main() reads intake_responses.csv, checks    *)
(* each preferred slot against the bookings loaded from                    *)
(* existing_bookings.csv, writes an .ics invite into out/ and appends the  *)
(* booking to existing_bookings.csv.                                       *)
(*                                                                         *)
(* Data representation                                                     *)
(*  - a datetime is the number of minutes since midnight of the one        *)
(*    calendar date all timestamps of the model lie on;                    *)
(*  - a timestamp string is the sequence of its four clock digits          *)
(*    <<h1, h2, m1, m2>>; any other sequence is a string fromisoformat     *)
(*    rejects; <<>> is a token that is empty after strip();                *)
(*  - a CSV cell is <<>> (None: the row is too short for the column) or    *)
(*    <<v>> (the cell holds v);                                            *)
(*  - a file is [exists |-> BOOLEAN, rows |-> sequence of data rows].      *)
(***************************************************************************)
EXTENDS Integers, Sequences, FiniteSets, TLC

VARIABLES
    intake,     \* intake_responses.csv
    store,      \* existing_bookings.csv
    outdir,     \* out/: function from invite file name to its content
    pc,         \* per process: position in main()
    bookings,   \* per process: main's list `bookings`
    scheduled,  \* per process: main's list `scheduled`
    i,          \* per process: index of the row the reader is at
    prefs,      \* per process: list `prefs` of the current row
    j,          \* per process: index in prefs of the candidate p
    booked,     \* per process: flag `booked`
    output,     \* per process: lines printed so far in this run
    exc,        \* per process: the call whose exception ended main(), or "none"
    runs,       \* number of runs of main() started so far
    sameInput,  \* history: the last run ran to its end and the intake is as it read it
    prevLen,    \* history: number of data rows of the store when the last run ended
    call,       \* one call of slot_overlaps: its arguments and what it returned
    app         \* app.py: the uploaded table, the row loop and the calendar

vars == <<intake, store, outdir, pc, bookings, scheduled, i, prefs, j, booked,
          output, exc, runs, sameInput, prevLen, call, app>>

\* the state of mvp_scheduler.py's main()
mainVars == <<intake, store, outdir, pc, bookings, scheduled, i, prefs, j, booked,
              output, exc, runs, sameInput, prevLen>>

----------------------------------------------------------------------------
(* Bounds *)

MaxRows == 2        \* rows per intake file
MaxRuns == 2        \* runs of main() in one behaviour
MaxTime == 4        \* largest instant of an argument of slot_overlaps
MaxBookings == 2    \* length of the list given to slot_overlaps

(* Program constants *)

DURATION_MINUTES == 30

----------------------------------------------------------------------------
(* Timestamps *)

\* datetime.fromisoformat accepts the string
ParsesOK(s) ==
    /\ Len(s) = 4
    /\ s[1] * 10 + s[2] <= 23
    /\ s[3] * 10 + s[4] <= 59

\* datetime.fromisoformat(s), for a string it accepts
fromisoformat(s) == (s[1] * 10 + s[2]) * 60 + s[3] * 10 + s[4]

\* dt.isoformat()
isoformat(dt) ==
    <<(dt \div 60) \div 10, (dt \div 60) % 10, (dt % 60) \div 10, (dt % 60) % 10>>

\* start_dt.strftime("%Y%m%dT%H%M")
strftime(dt) == isoformat(dt)

----------------------------------------------------------------------------
(* Inputs *)

T0900 == <<0, 9, 0, 0>>
T0915 == <<0, 9, 1, 5>>
T0930 == <<0, 9, 3, 0>>
T0960 == <<0, 9, 6, 0>>     \* minute out of range: fromisoformat raises
Blank == <<>>               \* nothing between two semicolons

\* a name is the sequence of its characters
Ada == <<"A", "d", "a">>
Bo == <<"B", "o">>
BoPadded == <<" ", "B", "o">>       \* " Bo": stripped by main()
AdaLee == <<"A", "d", "a", " ", "L">>

AdaMail == "ada@example.org"
BoMail == "bo@example.org"

\* a preferred_slots cell is given as raw_prefs.split(';') sees it, each piece
\* stripped: <<Blank>> is the empty cell, <<Blank, Blank>> a cell holding only ";"
Record(n, e, ps) == [name |-> <<n>>, email |-> <<e>>, preferred_slots |-> <<ps>>]

WellFormedRows ==
    { Record(Ada, AdaMail, <<T0900>>),
      Record(BoPadded, BoMail, <<T0900>>),
      Record(AdaLee, AdaMail, <<T0900, Blank, T0930>>),
      Record(Bo, BoMail, <<T0930, T0900>>),
      Record(Bo, BoMail, <<T0960, T0915>>),
      Record(Bo, BoMail, <<T0960>>),
      Record(Ada, AdaMail, <<Blank>>),
      Record(Ada, AdaMail, <<Blank, Blank>>) }

\* rows too short for one of the columns: csv.DictReader fills in None
ShortRows ==
    { [name |-> <<>>, email |-> <<>>, preferred_slots |-> <<>>],
      [name |-> <<Bo>>, email |-> <<BoMail>>, preferred_slots |-> <<>>] }

Rows == WellFormedRows \cup ShortRows

IntakeFiles ==
    { [exists |-> FALSE, rows |-> <<>>] } \cup
    { [exists |-> TRUE, rows |-> r] : r \in UNION { [1..n -> Rows] : n \in 0..MaxRows } }

\* what intake_responses.csv is replaced by between two runs: the file is
\* removed, emptied, or holds the one response that came in
NewIntakeFiles == { f \in IntakeFiles : Len(f.rows) <= 1 }

\* contents existing_bookings.csv can have before the first run
StoreFiles ==
    { [exists |-> FALSE, rows |-> <<>>],
      [exists |-> TRUE, rows |-> <<>>],
      [exists |-> TRUE, rows |-> << <<isoformat(540), isoformat(600)>> >>],
      [exists |-> TRUE, rows |-> << <<isoformat(570), isoformat(600)>> >>],
      [exists |-> TRUE, rows |-> << <<isoformat(585), isoformat(600)>>,
                                    <<isoformat(540), isoformat(555)>> >>],
      \* a row whose start is not a timestamp: the store cannot be read
      [exists |-> TRUE, rows |-> << <<T0960, isoformat(600)>> >>] }

\* no call of slot_overlaps is under observation
NoCall == [start |-> 0, end |-> 0, bookings |-> <<>>, ret |-> <<>>]

\* app.py before anything is uploaded
NoUpload == [uploaded |-> FALSE, df |-> <<>>, k |-> 0, events |-> {}, notices |-> <<>>,
             existing_bookings |-> <<>>, saved |-> <<>>, raised |-> FALSE]

Procs == {1}

----------------------------------------------------------------------------
(* Helpers of main() *)

\* read_existing_bookings's loop body: one (start, end) per data row
ParseRows(rows) ==
    [k \in 1..Len(rows) |-> <<fromisoformat(rows[k][1]), fromisoformat(rows[k][2])>>]

\* every row of the store parses
Readable(rows) ==
    \A k \in 1..Len(rows) : ParsesOK(rows[k][1]) /\ ParsesOK(rows[k][2])

read_existing_bookings ==
    IF ~store.exists THEN <<>> ELSE ParseRows(store.rows)

\* variant: no loop, the first booking decides
overlaps_from_first_only(start, end, bs, k) ==
    IF k > Len(bs) THEN FALSE
    ELSE start < bs[k][2] /\ end > bs[k][1]

RECURSIVE overlaps_from(_, _, _, _)
\* the for loop of slot_overlaps, from index k on
overlaps_from(start, end, bs, k) ==
    IF k > Len(bs) THEN FALSE
    ELSE IF start < bs[k][2] /\ end > bs[k][1] THEN TRUE
    ELSE overlaps_from(start, end, bs, k + 1)

\* variant: a candidate that starts where a booking ends counts as a conflict
slot_overlaps_closed_start(start, end, bs) ==
    \E k \in 1..Len(bs) : start <= bs[k][2] /\ end > bs[k][1]

\* variant: only a candidate that starts inside a booking counts as a conflict
slot_overlaps_start_inside(start, end, bs) ==
    \E k \in 1..Len(bs) : bs[k][1] <= start /\ start < bs[k][2]

slot_overlaps(start, end, bs) == overlaps_from(start, end, bs, 1)

\* prefs = [p.strip() for p in raw_prefs.split(';') if p.strip()]
split_prefs(cell) == SelectSeq(cell, LAMBDA t : t # Blank)

\* raw_prefs.strip() is empty: the cell holds nothing but white space
raw_prefs_empty(cell) == cell = <<Blank>>

RECURSIVE lstrip(_)
lstrip(n) == IF n # <<>> /\ Head(n) = " " THEN lstrip(Tail(n)) ELSE n

RECURSIVE rstrip(_)
rstrip(n) ==
    IF n # <<>> /\ n[Len(n)] = " " THEN rstrip(SubSeq(n, 1, Len(n) - 1)) ELSE n

\* n.strip()
strip(n) == rstrip(lstrip(n))

\* n.replace(" ", "_")
underscored(n) == [k \in 1..Len(n) |-> IF n[k] = " " THEN "_" ELSE n[k]]

\* variant: the file is named after the requester alone
filename_name_only(n, dt) == <<underscored(n), <<>>>>

\* the invite's file name below out/
filename(n, dt) == <<underscored(n), strftime(dt)>>

\* the fields of the .ics text that depend on the booking
ics_text(n, dt, attendee) ==
    [summary |-> n, dtstart |-> isoformat(dt),
     dtend |-> isoformat(dt + DURATION_MINUTES), attendee |-> attendee]

Line(m, w, a) == [msg |-> m, who |-> w, at |-> a]

\* locals of main() for process p
row(p) == intake.rows[i[p]]
name(p) == strip(row(p).name[1])
email(p) == row(p).email[1]
start_dt(p) == fromisoformat(prefs[p][j[p]])
end_dt(p) == start_dt(p) + DURATION_MINUTES

----------------------------------------------------------------------------
(* Initial state: no process has run yet *)

Init ==
    /\ intake \in IntakeFiles
    /\ store \in StoreFiles
    /\ outdir = <<>>
    /\ pc = [p \in Procs |-> "idle"]
    /\ bookings = [p \in Procs |-> <<>>]
    /\ scheduled = [p \in Procs |-> <<>>]
    /\ i = [p \in Procs |-> 0]
    /\ prefs = [p \in Procs |-> <<>>]
    /\ j = [p \in Procs |-> 0]
    /\ booked = [p \in Procs |-> FALSE]
    /\ output = [p \in Procs |-> <<>>]
    /\ exc = [p \in Procs |-> "none"]
    /\ runs = 0
    /\ sameInput = FALSE
    /\ prevLen = Len(store.rows)
    /\ call = NoCall
    /\ app = NoUpload

----------------------------------------------------------------------------
(* main() *)

\* variant: a store that cannot be read is taken for an empty one
StartRun_tolerant(p) ==
    /\ pc[p] = "idle"
    /\ runs < MaxRuns
    /\ runs' = runs + 1
    /\ IF ~intake.exists
       THEN /\ pc' = [pc EXCEPT ![p] = "exited"]
            /\ output' = [output EXCEPT ![p] = <<Line("CreateIntake", <<>>, <<>>)>>]
            /\ UNCHANGED <<bookings, scheduled, i, exc>>
       ELSE /\ bookings' = [bookings EXCEPT ![p] =
                              IF store.exists /\ ~Readable(store.rows)
                              THEN <<>> ELSE read_existing_bookings]
            /\ scheduled' = [scheduled EXCEPT ![p] = <<>>]
            /\ i' = [i EXCEPT ![p] = 1]
            /\ output' = [output EXCEPT ![p] = <<>>]
            /\ pc' = [pc EXCEPT ![p] = "row"]
            /\ UNCHANGED exc
    /\ UNCHANGED <<intake, store, outdir, prefs, j, booked, sameInput, prevLen>>
    /\ UNCHANGED <<call, app>>

\* lines 79-83: the script is started
StartRun(p) ==
    /\ pc[p] = "idle"
    /\ runs < MaxRuns
    /\ runs' = runs + 1
    /\ IF ~intake.exists
       THEN /\ pc' = [pc EXCEPT ![p] = "exited"]
            /\ output' = [output EXCEPT ![p] = <<Line("CreateIntake", <<>>, <<>>)>>]
            /\ UNCHANGED <<bookings, scheduled, i, exc>>
       ELSE IF store.exists /\ ~Readable(store.rows)
       THEN /\ pc' = [pc EXCEPT ![p] = "crashed"]
            /\ exc' = [exc EXCEPT ![p] = "read_existing_bookings"]
            /\ UNCHANGED <<output, bookings, scheduled, i>>
       ELSE /\ bookings' = [bookings EXCEPT ![p] = read_existing_bookings]
            /\ scheduled' = [scheduled EXCEPT ![p] = <<>>]
            /\ i' = [i EXCEPT ![p] = 1]
            /\ output' = [output EXCEPT ![p] = <<>>]
            /\ pc' = [pc EXCEPT ![p] = "row"]
            /\ UNCHANGED exc
    /\ UNCHANGED <<intake, store, outdir, prefs, j, booked, sameInput, prevLen>>
    /\ UNCHANGED <<call, app>>

\* lines 86-94: the reader yields the next row
ReadRow(p) ==
    /\ pc[p] = "row"
    /\ i[p] <= Len(intake.rows)
    /\ IF row(p).name = <<>> \/ row(p).email = <<>> \/ row(p).preferred_slots = <<>>
       THEN \* None.strip() raises AttributeError
            /\ pc' = [pc EXCEPT ![p] = "crashed"]
            /\ exc' = [exc EXCEPT ![p] = "strip"]
            /\ UNCHANGED <<i, prefs, j, booked, output>>
       ELSE IF raw_prefs_empty(row(p).preferred_slots[1])
       THEN /\ output' = [output EXCEPT ![p] = Append(@, Line("NoPreferredSlots", name(p), <<>>))]
            /\ i' = [i EXCEPT ![p] = @ + 1]
            /\ UNCHANGED <<pc, prefs, j, booked, exc>>
       ELSE /\ prefs' = [prefs EXCEPT ![p] = split_prefs(row(p).preferred_slots[1])]
            /\ booked' = [booked EXCEPT ![p] = FALSE]
            /\ j' = [j EXCEPT ![p] = 1]
            /\ pc' = [pc EXCEPT ![p] = "pref"]
            /\ UNCHANGED <<i, output, exc>>
    /\ UNCHANGED <<intake, store, outdir, bookings, scheduled, runs, sameInput, prevLen>>
    /\ UNCHANGED <<call, app>>

\* variant: the loop moves on without looking at the candidate
SkipPref_unchecked(p) ==
    /\ pc[p] = "pref"
    /\ j[p] <= Len(prefs[p])
    /\ j' = [j EXCEPT ![p] = @ + 1]
    /\ UNCHANGED <<intake, store, outdir, pc, bookings, scheduled, i, prefs, booked,
                   output, exc, runs, sameInput, prevLen>>
    /\ UNCHANGED <<call, app>>

\* variant: a candidate that conflicts is put on the list `bookings` all the same
SkipPref_remembering(p) ==
    /\ pc[p] = "pref"
    /\ j[p] <= Len(prefs[p])
    /\ IF ~ParsesOK(prefs[p][j[p]])
       THEN /\ output' = [output EXCEPT ![p] = Append(@, Line("InvalidFormat", <<>>, prefs[p][j[p]]))]
            /\ UNCHANGED bookings
       ELSE /\ slot_overlaps(start_dt(p), end_dt(p), bookings[p])
            /\ bookings' = [bookings EXCEPT ![p] = Append(@, <<start_dt(p), end_dt(p)>>)]
            /\ UNCHANGED output
    /\ j' = [j EXCEPT ![p] = @ + 1]
    /\ UNCHANGED <<intake, store, outdir, pc, scheduled, i, prefs, booked,
                   exc, runs, sameInput, prevLen>>
    /\ UNCHANGED <<call, app>>

\* lines 95-102: one iteration of `for p in prefs` that does not book
SkipPref(p) ==
    /\ pc[p] = "pref"
    /\ j[p] <= Len(prefs[p])
    /\ IF ~ParsesOK(prefs[p][j[p]])
       THEN output' = [output EXCEPT ![p] = Append(@, Line("InvalidFormat", <<>>, prefs[p][j[p]]))]
       ELSE /\ slot_overlaps(start_dt(p), end_dt(p), bookings[p])
            /\ UNCHANGED output
    /\ j' = [j EXCEPT ![p] = @ + 1]
    /\ UNCHANGED <<intake, store, outdir, pc, bookings, scheduled, i, prefs, booked,
                   exc, runs, sameInput, prevLen>>
    /\ UNCHANGED <<call, app>>

\* lines 95-104: the candidate is free
SelectPref(p) ==
    /\ pc[p] = "pref"
    /\ j[p] <= Len(prefs[p])
    /\ ParsesOK(prefs[p][j[p]])
    /\ ~slot_overlaps(start_dt(p), end_dt(p), bookings[p])
    /\ pc' = [pc EXCEPT ![p] = "create_ics"]
    /\ UNCHANGED <<intake, store, outdir, bookings, scheduled, i, prefs, j, booked,
                   output, exc, runs, sameInput, prevLen>>
    /\ UNCHANGED <<call, app>>

\* lines 112-113: the for loop ran out of candidates
NoSlot(p) ==
    /\ pc[p] = "pref"
    /\ j[p] > Len(prefs[p])
    /\ output' = [output EXCEPT ![p] =
                    IF ~booked[p] THEN Append(@, Line("CouldNotFind", name(p), <<>>)) ELSE @]
    /\ i' = [i EXCEPT ![p] = @ + 1]
    /\ pc' = [pc EXCEPT ![p] = "row"]
    /\ UNCHANGED <<intake, store, outdir, bookings, scheduled, prefs, j, booked,
                   exc, runs, sameInput, prevLen>>
    /\ UNCHANGED <<call, app>>

\* line 105: create_ics writes the invite
create_ics(p) ==
    /\ pc[p] = "create_ics"
    /\ outdir' = (filename(name(p), start_dt(p)) :> ics_text(name(p), start_dt(p), email(p)))
                    @@ outdir
    /\ pc' = [pc EXCEPT ![p] = "append"]
    /\ UNCHANGED <<intake, store, bookings, scheduled, i, prefs, j, booked, output,
                   exc, runs, sameInput, prevLen>>
    /\ UNCHANGED <<call, app>>

\* line 76: write_text raises OSError, nothing catches it
create_ics_fails(p) ==
    /\ pc[p] = "create_ics"
    /\ pc' = [pc EXCEPT ![p] = "crashed"]
    /\ exc' = [exc EXCEPT ![p] = "create_ics"]
    /\ UNCHANGED <<intake, store, outdir, bookings, scheduled, i, prefs, j, booked,
                   output, runs, sameInput, prevLen>>
    /\ UNCHANGED <<call, app>>

\* variant: the file is opened with 'w', the row replaces what was there
append_booking_truncating(p) ==
    /\ pc[p] = "append"
    /\ store' = [exists |-> TRUE,
                 rows |-> <<<<isoformat(start_dt(p)), isoformat(end_dt(p))>>>>]
    /\ pc' = [pc EXCEPT ![p] = "commit"]
    /\ UNCHANGED <<intake, outdir, bookings, scheduled, i, prefs, j, booked, output,
                   exc, runs, sameInput, prevLen>>
    /\ UNCHANGED <<call, app>>

\* line 106: append_booking_to_existing writes the row (and the header of a new file)
append_booking_to_existing(p) ==
    /\ pc[p] = "append"
    /\ store' = [exists |-> TRUE,
                 rows |-> Append(store.rows, <<isoformat(start_dt(p)), isoformat(end_dt(p))>>)]
    /\ pc' = [pc EXCEPT ![p] = "commit"]
    /\ UNCHANGED <<intake, outdir, bookings, scheduled, i, prefs, j, booked, output,
                   exc, runs, sameInput, prevLen>>
    /\ UNCHANGED <<call, app>>

\* line 40: open raises OSError, nothing catches it
append_fails(p) ==
    /\ pc[p] = "append"
    /\ pc' = [pc EXCEPT ![p] = "crashed"]
    /\ exc' = [exc EXCEPT ![p] = "append_booking_to_existing"]
    /\ UNCHANGED <<intake, store, outdir, bookings, scheduled, i, prefs, j, booked,
                   output, runs, sameInput, prevLen>>
    /\ UNCHANGED <<call, app>>

\* variant: line 107 is missing, the list `bookings` stays as loaded
Commit_not_remembered(p) ==
    /\ pc[p] = "commit"
    /\ scheduled' = [scheduled EXCEPT ![p] =
                        Append(@, <<name(p), email(p), isoformat(start_dt(p)),
                                    filename(name(p), start_dt(p))>>)]
    /\ output' = [output EXCEPT ![p] = Append(@, Line("Scheduled", name(p), isoformat(start_dt(p))))]
    /\ booked' = [booked EXCEPT ![p] = TRUE]
    /\ i' = [i EXCEPT ![p] = @ + 1]
    /\ pc' = [pc EXCEPT ![p] = "row"]
    /\ UNCHANGED <<intake, store, outdir, bookings, prefs, j, exc, runs, sameInput, prevLen>>
    /\ UNCHANGED <<call, app>>

\* variant: the new booking is put at the head of the list `bookings`
Commit_prepending(p) ==
    /\ pc[p] = "commit"
    /\ bookings' = [bookings EXCEPT ![p] = <<<<start_dt(p), end_dt(p)>>>> \o @]
    /\ scheduled' = [scheduled EXCEPT ![p] =
                        Append(@, <<name(p), email(p), isoformat(start_dt(p)),
                                    filename(name(p), start_dt(p))>>)]
    /\ output' = [output EXCEPT ![p] = Append(@, Line("Scheduled", name(p), isoformat(start_dt(p))))]
    /\ booked' = [booked EXCEPT ![p] = TRUE]
    /\ i' = [i EXCEPT ![p] = @ + 1]
    /\ pc' = [pc EXCEPT ![p] = "row"]
    /\ UNCHANGED <<intake, store, outdir, prefs, j, exc, runs, sameInput, prevLen>>
    /\ UNCHANGED <<call, app>>

\* lines 107-111, and 112 after the break
Commit(p) ==
    /\ pc[p] = "commit"
    /\ bookings' = [bookings EXCEPT ![p] = Append(@, <<start_dt(p), end_dt(p)>>)]
    /\ scheduled' = [scheduled EXCEPT ![p] =
                        Append(@, <<name(p), email(p), isoformat(start_dt(p)),
                                    filename(name(p), start_dt(p))>>)]
    /\ output' = [output EXCEPT ![p] = Append(@, Line("Scheduled", name(p), isoformat(start_dt(p))))]
    /\ booked' = [booked EXCEPT ![p] = TRUE]
    /\ i' = [i EXCEPT ![p] = @ + 1]
    /\ pc' = [pc EXCEPT ![p] = "row"]
    /\ UNCHANGED <<intake, store, outdir, prefs, j, exc, runs, sameInput, prevLen>>
    /\ UNCHANGED <<call, app>>

\* lines 114-117: the reader is exhausted
Summary(p) ==
    /\ pc[p] = "row"
    /\ i[p] > Len(intake.rows)
    /\ output' = [output EXCEPT ![p] = Append(@, Line("Summary", <<>>, <<Len(scheduled[p])>>))]
    /\ pc' = [pc EXCEPT ![p] = "done"]
    /\ UNCHANGED <<intake, store, outdir, bookings, scheduled, i, prefs, j, booked,
                   exc, runs, sameInput, prevLen>>
    /\ UNCHANGED <<call, app>>

\* the process ends; its memory is gone
Exit(p) ==
    /\ pc[p] \in {"done", "crashed", "exited"}
    /\ sameInput' = (pc[p] = "done")
    /\ prevLen' = Len(store.rows)
    /\ pc' = [pc EXCEPT ![p] = "idle"]
    /\ bookings' = [bookings EXCEPT ![p] = <<>>]
    /\ scheduled' = [scheduled EXCEPT ![p] = <<>>]
    /\ i' = [i EXCEPT ![p] = 0]
    /\ prefs' = [prefs EXCEPT ![p] = <<>>]
    /\ j' = [j EXCEPT ![p] = 0]
    /\ booked' = [booked EXCEPT ![p] = FALSE]
    /\ output' = [output EXCEPT ![p] = <<>>]
    /\ exc' = [exc EXCEPT ![p] = "none"]
    /\ UNCHANGED <<intake, store, outdir, runs>>
    /\ UNCHANGED <<call, app>>

\* between two runs somebody replaces intake_responses.csv
EditIntake ==
    /\ \A p \in DOMAIN pc : pc[p] = "idle"
    /\ runs \in 1..(MaxRuns - 1)
    /\ intake' \in NewIntakeFiles \ {intake}
    /\ sameInput' = FALSE
    /\ UNCHANGED <<store, outdir, pc, bookings, scheduled, i, prefs, j, booked, output,
                   exc, runs, prevLen>>
    /\ UNCHANGED <<call, app>>

Next ==
    \/ \E p \in DOMAIN pc : StartRun(p)
    \/ \E p \in DOMAIN pc : ReadRow(p)
    \/ \E p \in DOMAIN pc : SkipPref(p)
    \/ \E p \in DOMAIN pc : SelectPref(p)
    \/ \E p \in DOMAIN pc : NoSlot(p)
    \/ \E p \in DOMAIN pc : create_ics(p)
    \/ \E p \in DOMAIN pc : create_ics_fails(p)
    \/ \E p \in DOMAIN pc : append_booking_to_existing(p)
    \/ \E p \in DOMAIN pc : append_fails(p)
    \/ \E p \in DOMAIN pc : Commit(p)
    \/ \E p \in DOMAIN pc : Summary(p)
    \/ \E p \in DOMAIN pc : Exit(p)
    \/ EditIntake

Spec == Init /\ [][Next]_vars

----------------------------------------------------------------------------
(* Two runs of the script at the same time, on the same files *)

Procs2 == {1, 2}

InitConc ==
    /\ intake \in IntakeFiles
    /\ store \in StoreFiles
    /\ outdir = <<>>
    /\ pc = [p \in Procs2 |-> "idle"]
    /\ bookings = [p \in Procs2 |-> <<>>]
    /\ scheduled = [p \in Procs2 |-> <<>>]
    /\ i = [p \in Procs2 |-> 0]
    /\ prefs = [p \in Procs2 |-> <<>>]
    /\ j = [p \in Procs2 |-> 0]
    /\ booked = [p \in Procs2 |-> FALSE]
    /\ output = [p \in Procs2 |-> <<>>]
    /\ exc = [p \in Procs2 |-> "none"]
    /\ runs = 0
    /\ sameInput = FALSE
    /\ prevLen = Len(store.rows)
    /\ call = NoCall
    /\ app = NoUpload

SpecConc == InitConc /\ [][Next]_vars

----------------------------------------------------------------------------
(* slot_overlaps on its own: one call, on arguments of any shape *)

\* the intervals with end > start
Intervals == { a \in (0..MaxTime) \X (0..MaxTime) : a[1] < a[2] }

BookingLists == UNION { [1..n -> Intervals] : n \in 0..MaxBookings }

InitOverlap ==
    /\ intake = [exists |-> FALSE, rows |-> <<>>]
    /\ store = [exists |-> FALSE, rows |-> <<>>]
    /\ outdir = <<>>
    /\ pc = [p \in Procs |-> "idle"]
    /\ bookings = [p \in Procs |-> <<>>]
    /\ scheduled = [p \in Procs |-> <<>>]
    /\ i = [p \in Procs |-> 0]
    /\ prefs = [p \in Procs |-> <<>>]
    /\ j = [p \in Procs |-> 0]
    /\ booked = [p \in Procs |-> FALSE]
    /\ output = [p \in Procs |-> <<>>]
    /\ exc = [p \in Procs |-> "none"]
    /\ runs = 0
    /\ sameInput = FALSE
    /\ prevLen = 0
    /\ call \in { [start |-> a[1], end |-> a[2], bookings |-> bs, ret |-> <<>>] :
                     a \in Intervals, bs \in BookingLists }
    /\ app = NoUpload

\* lines 46-51: the call returns
CallSlotOverlaps ==
    /\ call.ret = <<>>
    /\ call' = [call EXCEPT !.ret = <<slot_overlaps(call.start, call.end, call.bookings)>>]
    /\ UNCHANGED mainVars
    /\ UNCHANGED app

NextOverlap == CallSlotOverlaps

SpecOverlap == InitOverlap /\ [][NextOverlap]_vars

----------------------------------------------------------------------------
(* app.py: the upload surface. The record `app` holds the uploaded table  *)
(* df, the index k of the row the loop of line 29 is at, the events of    *)
(* `cal`, the notices shown, the DataFrame existing_bookings, the content *)
(* written to out/scheduled_meetings.ics and whether line 30 has raised.  *)

MaxUpload == 2      \* rows of an uploaded table

\* timedelta(hours=1), in minutes
EVENT_MINUTES == 60

T1000 == <<1, 0, 0, 0>>
T1030 == <<1, 0, 3, 0>>
T1100 == <<1, 1, 0, 0>>
T1300 == <<1, 3, 0, 0>>
T1330 == <<1, 3, 3, 0>>
T1400 == <<1, 4, 0, 0>>

\* the string matches "%Y-%m-%d %H:%M"
matches(s) ==
    /\ Len(s) = 4
    /\ s[1] * 10 + s[2] <= 23
    /\ s[3] * 10 + s[4] <= 59

\* datetime.strptime(s, "%Y-%m-%d %H:%M"), for a string that matches
strptime(s) == (s[1] * 10 + s[2]) * 60 + (s[3] * 10 + s[4])

\* lines 16-19
existing_bookings ==
    << [start |-> T1000, end |-> T1100, title |-> "Team Meeting"],
       [start |-> T1300, end |-> T1400, title |-> "Doctor Appt"] >>

\* the preferred_time cells of the uploads
PreferredTimes == {T0900, T0930, T1000, T1030, T1100, T1330, T0960}

UploadRows ==
    { [name |-> n, email |-> AdaMail, preferred_time |-> t] :
          n \in {Ada, Bo}, t \in PreferredTimes }

\* the tables pd.read_csv can return
Uploads == UNION { [1..n -> UploadRows] : n \in 0..MaxUpload }

RECURSIVE conflict_from(_, _, _, _)
\* lines 34-40: the loop over existing_bookings, from index b on
conflict_from(start_time, end_time, eb, b) ==
    IF b > Len(eb) THEN FALSE
    ELSE LET booked_start == strptime(eb[b].start)
             booked_end == strptime(eb[b].end)
         IN IF start_time < booked_end /\ end_time > booked_start THEN TRUE
            ELSE conflict_from(start_time, end_time, eb, b + 1)

\* lines 45-49; uid is the identifier the ics library gives each Event(),
\* here the index of the row the event is made for
Event(uid, r, start_time, end_time) ==
    [uid |-> uid, name |-> r.name, begin |-> start_time, end |-> end_time,
     description |-> r.email]

InitApp ==
    /\ intake = [exists |-> FALSE, rows |-> <<>>]
    /\ store = [exists |-> FALSE, rows |-> <<>>]
    /\ outdir = <<>>
    /\ pc = [p \in Procs |-> "idle"]
    /\ bookings = [p \in Procs |-> <<>>]
    /\ scheduled = [p \in Procs |-> <<>>]
    /\ i = [p \in Procs |-> 0]
    /\ prefs = [p \in Procs |-> <<>>]
    /\ j = [p \in Procs |-> 0]
    /\ booked = [p \in Procs |-> FALSE]
    /\ output = [p \in Procs |-> <<>>]
    /\ exc = [p \in Procs |-> "none"]
    /\ runs = 0
    /\ sameInput = FALSE
    /\ prevLen = 0
    /\ call = NoCall
    /\ app = [NoUpload EXCEPT !.existing_bookings = existing_bookings]

\* lines 67-68: nothing is uploaded, the page asks for a file
AppInfo ==
    /\ ~app.uploaded
    /\ app.notices = <<>>
    /\ app' = [app EXCEPT !.notices = <<Line("UploadInfo", <<>>, <<>>)>>]
    /\ UNCHANGED mainVars
    /\ UNCHANGED call

\* lines 13, 21-27: a file is uploaded and read, cal is empty
AppUpload ==
    /\ ~app.uploaded
    /\ \E df \in Uploads :
          app' = [app EXCEPT !.uploaded = TRUE, !.df = df, !.k = 1,
                             !.events = {}, !.notices = <<>>]
    /\ UNCHANGED mainVars
    /\ UNCHANGED call

\* variant: a scheduled event is added to existing_bookings as well
AppRow_remembering ==
    /\ app.uploaded /\ ~app.raised /\ app.saved = <<>>
    /\ app.k <= Len(app.df)
    /\ matches(app.df[app.k].preferred_time)
    /\ LET r == app.df[app.k]
           start_time == strptime(r.preferred_time)
           end_time == start_time + EVENT_MINUTES
           conflict == conflict_from(start_time, end_time, app.existing_bookings, 1)
       IN IF conflict
          THEN app' = [app EXCEPT !.notices = Append(@, Line("Conflict", r.name, r.preferred_time)),
                                  !.k = @ + 1]
          ELSE app' = [app EXCEPT !.events = @ \cup {Event(app.k, r, start_time, end_time)},
                                  !.existing_bookings =
                                      Append(@, [start |-> r.preferred_time,
                                                 end |-> isoformat(end_time),
                                                 title |-> "Consultation"]),
                                  !.notices = Append(@, Line("Scheduled", r.name, r.preferred_time)),
                                  !.k = @ + 1]
    /\ UNCHANGED mainVars
    /\ UNCHANGED call

\* lines 29-51: one turn of the row loop
AppRow ==
    /\ app.uploaded /\ ~app.raised /\ app.saved = <<>>
    /\ app.k <= Len(app.df)
    /\ matches(app.df[app.k].preferred_time)
    /\ LET r == app.df[app.k]
           start_time == strptime(r.preferred_time)
           end_time == start_time + EVENT_MINUTES
           conflict == conflict_from(start_time, end_time, app.existing_bookings, 1)
       IN IF conflict
          THEN app' = [app EXCEPT !.notices = Append(@, Line("Conflict", r.name, r.preferred_time)),
                                  !.k = @ + 1]
          ELSE app' = [app EXCEPT !.events = @ \cup {Event(app.k, r, start_time, end_time)},
                                  !.notices = Append(@, Line("Scheduled", r.name, r.preferred_time)),
                                  !.k = @ + 1]
    /\ UNCHANGED mainVars
    /\ UNCHANGED call

\* line 30: strptime raises ValueError, nothing catches it; the script stops
AppRowFails ==
    /\ app.uploaded /\ ~app.raised /\ app.saved = <<>>
    /\ app.k <= Len(app.df)
    /\ ~matches(app.df[app.k].preferred_time)
    /\ app' = [app EXCEPT !.raised = TRUE]
    /\ UNCHANGED mainVars
    /\ UNCHANGED call

\* lines 53-57: the calendar is written to out/scheduled_meetings.ics
AppSave ==
    /\ app.uploaded /\ ~app.raised /\ app.saved = <<>>
    /\ app.k > Len(app.df)
    /\ app' = [app EXCEPT !.saved = <<app.events>>]
    /\ UNCHANGED mainVars
    /\ UNCHANGED call

NextApp ==
    \/ AppInfo
    \/ AppUpload
    \/ AppRow
    \/ AppRowFails
    \/ AppSave

SpecApp == InitApp /\ [][NextApp]_vars

----------------------------------------------------------------------------
(* Vocabulary of the properties *)

\* two half-open intervals share an instant
Overlap(a, b) == a[1] < b[2] /\ a[2] > b[1]

PairwiseDisjoint(bs) ==
    \A a, b \in 1..Len(bs) : a # b => ~Overlap(bs[a], bs[b])

\* the intervals recorded in existing_bookings.csv
Ledger == ParseRows(store.rows)

\* the interval a candidate string stands for
Candidate(tok) == <<fromisoformat(tok), fromisoformat(tok) + DURATION_MINUTES>>

\* the candidate is a timestamp and its interval meets no committed interval
Free(tok, committed) ==
    /\ ParsesOK(tok)
    /\ \A k \in 1..Len(committed) : ~Overlap(Candidate(tok), committed[k])

\* the preferred_slots cell of the row process p is at, as listed
Listed(p) == row(p).preferred_slots[1]

\* the first listed candidate that is free is the one at index k
FirstFreeAt(cell, committed, k) ==
    /\ k \in 1..Len(cell)
    /\ Free(cell[k], committed)
    /\ \A m \in 1..(k - 1) : ~Free(cell[m], committed)

Running(p) == pc[p] \in {"row", "pref", "create_ics", "append", "commit"}

\* the lines that close a request
Outcomes(p) ==
    SelectSeq(output[p],
              LAMBDA l : l.msg \in {"Scheduled", "CouldNotFind", "NoPreferredSlots"})

----------------------------------------------------------------------------
C2_FirstFit ==
    \A p \in DOMAIN pc :
        /\ pc[p] \in {"create_ics", "append"} =>
             \E k \in 1..Len(Listed(p)) :
                /\ FirstFreeAt(Listed(p), Ledger, k)
                /\ prefs[p][j[p]] = Listed(p)[k]
        /\ pc[p] = "commit" =>
             \E k \in 1..Len(Listed(p)) :
                /\ FirstFreeAt(Listed(p), bookings[p], k)
                /\ prefs[p][j[p]] = Listed(p)[k]
        /\ (pc[p] = "pref" /\ j[p] > Len(prefs[p])) =>
             \A k \in 1..Len(Listed(p)) : ~Free(Listed(p)[k], Ledger)
        /\ Running(p) =>
             Len(scheduled[p]) <= i[p] - 1
        /\ pc[p] \in {"row", "pref", "create_ics", "append"} =>
             Len(store.rows) = prevLen + Len(scheduled[p])

\* the second listed candidate is being booked because the first, a valid
\* timestamp, conflicts
C2_Witness ==
    \E p \in DOMAIN pc :
        /\ pc[p] = "commit" /\ j[p] = 2
        /\ ParsesOK(prefs[p][1])

(* C3: within a run, every booking made for an earlier request is in the   *)
(* list the conflict check of a later request reads; with an empty ledger  *)
(* and the requests Ada then Bo, both with 09:00 as only candidate, Ada is *)
(* scheduled and Bo is not.                                                *)
C3_FirstComeFirstServed ==
    \A p \in DOMAIN pc :
        /\ pc[p] \in {"row", "pref", "create_ics", "append", "done"} =>
             \A k \in 1..Len(scheduled[p]) :
                \E m \in 1..Len(bookings[p]) :
                    bookings[p][m] = Candidate(scheduled[p][k][3])
        /\ ( /\ pc[p] = "done"
             /\ prevLen = 0
             /\ intake.rows = <<Record(Ada, AdaMail, <<T0900>>),
                                Record(BoPadded, BoMail, <<T0900>>)>> ) =>
             Outcomes(p) = <<Line("Scheduled", Ada, T0900), Line("CouldNotFind", Bo, <<>>)>>

\* the run of the scenario has ended
C3_Witness ==
    \E p \in DOMAIN pc :
        /\ pc[p] = "done"
        /\ prevLen = 0
        /\ intake.rows = <<Record(Ada, AdaMail, <<T0900>>),
                           Record(BoPadded, BoMail, <<T0900>>)>>
        /\ Len(scheduled[p]) = 1

(* C4: a second run on the unmodified intake, against the store the first  *)
(* run left, adds no booking: the store holds as many intervals after the  *)
(* second run as after the first.                                          *)
C4_RerunAddsNothing ==
    \A p \in DOMAIN pc :
        (pc[p] = "done" /\ sameInput) => Len(store.rows) = prevLen

(* C5: every invite in out/ has its interval recorded in                   *)
(* existing_bookings.csv, in every state, the states between two steps of  *)
(* a run included.                                                         *)
C5_InviteAfterAppend ==
    \A f \in DOMAIN outdir :
        \E k \in 1..Len(store.rows) :
            store.rows[k] = <<outdir[f].dtstart, outdir[f].dtend>>

(* C6: when the append to existing_bookings.csv fails, the interval is not *)
(* in `bookings`, the request is not reported as scheduled and no invite   *)
(* exists for it.                                                          *)
C6_AppendFailureLeavesNothing ==
    \A p \in DOMAIN pc :
        exc[p] = "append_booking_to_existing" =>
            /\ \A k \in 1..Len(bookings[p]) : bookings[p][k] # Candidate(prefs[p][j[p]])
            /\ \A k \in 1..Len(output[p]) :
                   output[p][k] # Line("Scheduled", name(p), isoformat(start_dt(p)))
            /\ filename(name(p), start_dt(p)) \notin DOMAIN outdir

(* C7: when writing the invite fails, the booking is in the ledger all the *)
(* same and the run goes on with the next request.                         *)
C7_InviteFailureKeepsBooking ==
    \A p \in DOMAIN pc :
        exc[p] = "create_ics" =>
            /\ \E k \in 1..Len(Ledger) : Ledger[k] = Candidate(prefs[p][j[p]])
            /\ pc[p] # "crashed"

(* C8: a malformed record never ends the run: unless a storage call        *)
(* failed, main() stops only after the last row of the intake.             *)
C8_MalformedRowsDoNotAbort ==
    \A p \in DOMAIN pc :
        ( /\ pc[p] \in {"done", "crashed"}
          /\ exc[p] \notin {"create_ics", "append_booking_to_existing",
                            "read_existing_bookings"} ) =>
            i[p] = Len(intake.rows) + 1

(* C9: a request all of whose candidates are malformed timestamps does not *)
(* get the outcome of an unschedulable request.                            *)
C9_OnlyMalformedIsInvalid ==
    \A p \in DOMAIN pc :
        \A k \in 1..Len(Outcomes(p)) :
            LET cands == split_prefs(intake.rows[k].preferred_slots[1])
            IN  ( /\ cands # <<>>
                  /\ \A m \in 1..Len(cands) : ~ParsesOK(cands[m]) ) =>
                    Outcomes(p)[k].msg # "CouldNotFind"

(* C10: the store only grows: a step that changes existing_bookings.csv is *)
(* the append of a scheduled request and adds, after the rows that were    *)
(* there, one row that reads back as [start, start + 30 minutes) of the    *)
(* selected candidate; between requests the store holds the rows it held   *)
(* when the run started plus one row per scheduled request.                *)
C10_AppendOnly ==
    /\ [][ store' # store =>
             \E p \in DOMAIN pc :
                /\ pc[p] = "append" /\ pc'[p] = "commit"
                /\ store'.exists
                /\ Len(store'.rows) = Len(store.rows) + 1
                /\ SubSeq(store'.rows, 1, Len(store.rows)) = store.rows
                /\ Readable(store'.rows)
                /\ ParseRows(store'.rows)[Len(store'.rows)] = Candidate(prefs[p][j[p]]) ]_vars
    /\ [](\A p \in DOMAIN pc :
            pc[p] \in {"row", "done"} => Len(store.rows) = prevLen + Len(scheduled[p]))

\* a second run appends to a store that already holds rows
C10_Witness ==
    \E p \in DOMAIN pc :
        /\ pc[p] = "commit" /\ runs = 2
        /\ Len(store.rows) >= 2

(* C11: when main() starts with an intake file, an absent store loads as   *)
(* the empty list and the run goes on to the first row; a store that       *)
(* exists and cannot be read ends the run there: no row is processed,      *)
(* nothing is appended and no invite is written.                           *)
C11_LedgerLoad ==
    /\ [][ \A p \in DOMAIN pc :
             (pc[p] = "idle" /\ pc'[p] # "idle" /\ intake.exists) =>
                IF store.exists /\ ~Readable(store.rows)
                THEN /\ pc'[p] = "crashed"
                     /\ exc'[p] = "read_existing_bookings"
                ELSE /\ pc'[p] = "row"
                     /\ i'[p] = 1
                     /\ (~store.exists => bookings'[p] = <<>>) ]_vars
    /\ [](\A p \in DOMAIN pc :
            (store.exists /\ ~Readable(store.rows)) =>
                /\ pc[p] \in {"idle", "exited", "crashed"}
                /\ i[p] = 0
                /\ output[p] \in {<<>>, <<Line("CreateIntake", <<>>, <<>>)>>}
                /\ Len(store.rows) = prevLen
                /\ outdir = <<>>)

\* a run has been ended by the store that cannot be read
C11_Witness ==
    \E p \in DOMAIN pc :
        /\ pc[p] = "crashed" /\ exc[p] = "read_existing_bookings"
        /\ Len(intake.rows) >= 1

(* C12: while main() is at a request none of whose listed candidates is a  *)
(* timestamp with a free interval (none listed, none parsable, or all in   *)
(* conflict), no step changes the store, the list `bookings`, the invites  *)
(* in out/ or the list `scheduled`, and the request ends without a         *)
(* booking.                                                                *)
C12_UnscheduledChangesNothing ==
    [][ \A p \in DOMAIN pc :
          ( /\ pc[p] \in {"row", "pref"}
            /\ i[p] \in 1..Len(intake.rows)
            /\ row(p).name # <<>> /\ row(p).email # <<>> /\ row(p).preferred_slots # <<>>
            /\ \A k \in 1..Len(Listed(p)) : ~Free(Listed(p)[k], Ledger) ) =>
                /\ store' = store
                /\ outdir' = outdir
                /\ bookings'[p] = bookings[p]
                /\ scheduled'[p] = scheduled[p]
                /\ pc'[p] \in {"row", "pref"} ]_vars

\* a request whose candidate is a timestamp has just ended without a slot,
\* on a ledger that holds bookings
C12_Witness ==
    \E p \in DOMAIN pc :
        /\ pc[p] = "row" /\ i[p] >= 2
        /\ Len(Outcomes(p)) = i[p] - 1
        /\ Outcomes(p)[i[p] - 1].msg = "CouldNotFind"
        /\ \E k \in 1..Len(intake.rows[i[p] - 1].preferred_slots[1]) :
               ParsesOK(intake.rows[i[p] - 1].preferred_slots[1][k])
        /\ Len(store.rows) >= 1

(* C13: with two runs of the script at work on the same store, the check   *)
(* and the append of a request are serialized against those of the other   *)
(* run, so that the two runs never both commit a slot they both saw free:  *)
(* no two intervals of the store overlap, in any state of the two runs.    *)
C13_SerializedCheckThenAppend ==
    \A a, b \in 1..Len(store.rows) :
        a # b => ~Overlap(Ledger[a], Ledger[b])

(* C14: for intervals A and B with end > start, slot_overlaps of A against *)
(* the list [B] returns what slot_overlaps of B against the list [A]       *)
(* returns.                                                                *)
C14_OverlapSymmetric ==
    (call.ret # <<>> /\ Len(call.bookings) = 1) =>
        call.ret[1] = slot_overlaps(call.bookings[1][1], call.bookings[1][2],
                                    <<<<call.start, call.end>>>>)

\* a call against a one-interval list has returned True
C14_Witness ==
    /\ call.ret = <<TRUE>>
    /\ Len(call.bookings) = 1
    /\ call.bookings[1] # <<call.start, call.end>>

(* C15: slot_overlaps returns True exactly when some interval b of the     *)
(* list has start < b.end and end > b.start, whatever the order of the     *)
(* list, and leaves its arguments as they were; an interval that only      *)
(* touches the one of the list does not overlap it, and an interval        *)
(* overlaps itself.                                                        *)
C15_OverlapDefinition ==
    /\ [](call.ret # <<>> =>
            /\ call.ret[1] = (\E k \in 1..Len(call.bookings) :
                                 Overlap(<<call.start, call.end>>, call.bookings[k]))
            /\ \A b \in Intervals :
                  (call.bookings = <<b>> /\ (b[1] = call.end \/ b[2] = call.start)) =>
                      call.ret[1] = FALSE
            /\ call.bookings = <<<<call.start, call.end>>>> => call.ret[1] = TRUE)
    /\ [][ /\ call'.start = call.start
           /\ call'.end = call.end
           /\ call'.bookings = call.bookings ]_vars

\* the call returned True on account of the second interval of the list
C15_Witness ==
    /\ call.ret = <<TRUE>>
    /\ Len(call.bookings) = 2
    /\ ~Overlap(<<call.start, call.end>>, call.bookings[1])

RECURSIVE SumSeq(_)
SumSeq(ns) == IF ns = <<>> THEN 0 ELSE Head(ns) + SumSeq(Tail(ns))

\* the summary printed by the run of process p, if it printed one
SummaryLines(p) == SelectSeq(output[p], LAMBDA l : l.msg = "Summary")

(* C16: when a run has printed its summary, every request of the intake    *)
(* has one closing outcome, the counts of the summary add up to the number *)
(* of requests, and the scheduled entries are, in order, the intervals     *)
(* this run appended to the store.                                         *)
C16_SummaryAccounts ==
    \A p \in DOMAIN pc :
        pc[p] = "done" =>
            /\ Len(Outcomes(p)) = Len(intake.rows)
            /\ Len(SummaryLines(p)) = 1
            /\ SumSeq(SummaryLines(p)[1].at) = Len(intake.rows)
            /\ Len(scheduled[p]) = Len(store.rows) - prevLen
            /\ \A k \in 1..Len(scheduled[p]) :
                   store.rows[prevLen + k][1] = scheduled[p][k][3]

(* C17: with an intake of well-formed requests and a store that is absent  *)
(* or readable, a run never stops short of the summary, and while it runs  *)
(* the requests before the reader's position are the ones that have been   *)
(* closed, each once.                                                      *)
C17_RunsToCompletion ==
    \A p \in DOMAIN pc :
        ( /\ \A k \in 1..Len(intake.rows) : intake.rows[k] \in WellFormedRows
          /\ (store.exists => Readable(store.rows)) ) =>
            /\ pc[p] # "crashed"
            /\ Running(p) => Len(Outcomes(p)) = i[p] - 1

Committed(f) ==
    \E k \in 1..Len(store.rows) :
        store.rows[k] = <<outdir[f].dtstart, outdir[f].dtend>>

\* the names a requester can have after line 89
RequesterNames == {strip(r.name[1]) : r \in {w \in Rows : w.name # <<>>}}

FixedBookings ==
    { <<strptime(existing_bookings[b].start), strptime(existing_bookings[b].end)>> :
          b \in 1..Len(existing_bookings) }

\* the hour that starts at the row's preferred_time
Hour(r) == <<strptime(r.preferred_time), strptime(r.preferred_time) + EVENT_MINUTES>>

====
